---- MODULE Spec2Model ----
(***************************************************************************)
(* Model of pkg/k8sutil/certs.go of the elasticsearch operator: the       *)
(* certificate provisioning run GenerateCerts (workspace clean, config    *)
(* generation, CA and leaf issuance through pipeCommands, format          *)
(* conversions) and the bundle assembly CreateCertsSecret.                 *)
(*                                                                         *)
(* The external tools (cfssl, cfssljson, openssl, keytool) are the        *)
(* environment.  The code observes of a tool only what exec reports: an   *)
(* error from StdoutPipe, Start or Output.  The model therefore lets the  *)
(* environment choose these results freely; a tool writes its output      *)
(* files only when it exits 0 and its inputs were available to it.        *)
(*                                                                         *)
(* Specifications: Spec (GenerateCerts and CreateCertsSecret), SpecPipe    *)
(* (pipeCommands with any commands), SpecConfig (generateConfig and        *)
(* cleanUp on configDir, by content), SpecLeaf (the leaf loop in any       *)
(* order), SpecConc (two callers of GenerateCerts at once), SpecStore      *)
(* (CertsSecretExists, CreateCertsSecret, DeleteCertsSecret).              *)
(***************************************************************************)
EXTENDS Integers, Sequences, FiniteSets, TLC

(***************************************************************************)
(* Bounds of the model.                                                    *)
(***************************************************************************)
\* number of GenerateCerts invocations in one behaviour
MaxRuns == 2
\* number of environment faults (failed syscalls, failed tools) in one behaviour
MaxFaults == 2
\* longest command sequence handed to pipeCommands in the generic specification
MaxCmds == 3

(***************************************************************************)
(* Byte contents.  What cfssl gencert emits is <<r, c>>: made in run r,     *)
(* belonging to the CA generated in run c.  A file of certsDir holds       *)
(* <<r, c, a>>, a naming the artifact the bytes are (the certificate of    *)
(* node, the key of kibana, ...).  <<>> is "no bytes".                     *)
(***************************************************************************)
Absent == <<-1>>
NoData == <<>>
NilBytes == <<-2>>

Identities == {"node", "kibana", "cerebro", "sgadmin"}

\* certs.go:194, the order of the leaf loop
LeafOrder == <<"node", "kibana", "cerebro", "sgadmin">>

PemName == [ca |-> "ca.pem", node |-> "node.pem", kibana |-> "kibana.pem",
            cerebro |-> "cerebro.pem", sgadmin |-> "sgadmin.pem"]

KeyName == [ca |-> "ca-key.pem", node |-> "node-key.pem", kibana |-> "kibana-key.pem",
            cerebro |-> "cerebro-key.pem", sgadmin |-> "sgadmin-key.pem"]

ReqName == [ca |-> "ca-csr.json", node |-> "req-node-csr.json",
            kibana |-> "req-kibana-csr.json", cerebro |-> "req-cerebro-csr.json",
            sgadmin |-> "req-sgadmin-csr.json"]

PipelineStages == {"ca", "node", "kibana", "cerebro", "sgadmin"}

ConversionStages == {"pkcs8", "sgadminP12", "nodeP12", "truststore", "sgadminJKS", "nodeJKS"}

\* the files a conversion reads (-in, -inkey, -certfile, -file, -srckeystore)
ConvIn == [pkcs8 |-> {"node-key.pem"},
           sgadminP12 |-> {"sgadmin-key.pem", "sgadmin.pem", "ca.pem"},
           nodeP12 |-> {"node-key.pem", "node.pem", "ca.pem"},
           truststore |-> {"ca.pem"},
           sgadminJKS |-> {"sgadmin.pkcs12"},
           nodeJKS |-> {"node.pkcs12"}]

\* the file whose CA lineage the converted artifact carries
ConvMain == [pkcs8 |-> "node-key.pem", sgadminP12 |-> "sgadmin.pem",
             nodeP12 |-> "node.pem", truststore |-> "ca.pem",
             sgadminJKS |-> "sgadmin.pkcs12", nodeJKS |-> "node.pkcs12"]

\* the file a conversion writes (-out, -keystore, -destkeystore)
ConvOut == [pkcs8 |-> "node-key.pkcs8.pem", sgadminP12 |-> "sgadmin.pkcs12",
            nodeP12 |-> "node.pkcs12", truststore |-> "truststore.jks",
            sgadminJKS |-> "sgadmin-keystore.jks", nodeJKS |-> "node-keystore.jks"]

\* a variant of the program order that signs the node before the CA exists
StageOrderLeafFirst == <<"cleanCerts", "cleanConfig", "genConfig",
                         "node", "ca", "kibana", "cerebro", "sgadmin",
                         "pkcs8", "sgadminP12", "nodeP12", "truststore", "sgadminJKS", "nodeJKS">>

\* the statements of GenerateCerts, in program order
StageOrder == <<"cleanCerts", "cleanConfig", "genConfig",
                "ca", "node", "kibana", "cerebro", "sgadmin",
                "pkcs8", "sgadminP12", "nodeP12", "truststore", "sgadminJKS", "nodeJKS">>

Stages == {StageOrder[i] : i \in 1..Len(StageOrder)}

StageIndex(s) == CHOOSE i \in 1..Len(StageOrder) : StageOrder[i] = s

NextStage(s) ==
    IF StageIndex(s) = Len(StageOrder) THEN "done" ELSE StageOrder[StageIndex(s) + 1]

\* every name that can appear in certsDir, in the order a listing returns them
CertsOrder == <<"ca-key.pem", "ca.pem", "cerebro-key.pem", "cerebro.pem",
                "kibana-key.pem", "kibana.pem", "node-key.pem", "node-key.pkcs8.pem",
                "node-keystore.jks", "node.pem", "node.pkcs12", "sgadmin-key.pem",
                "sgadmin-keystore.jks", "sgadmin.pem", "sgadmin.pkcs12", "truststore.jks">>

CertFiles == {CertsOrder[i] : i \in 1..Len(CertsOrder)}

\* the descriptor files, the two fixed ones first
ConfigOrder == <<"ca-config.json", "ca-csr.json", "req-cerebro-csr.json",
                 "req-kibana-csr.json", "req-node-csr.json", "req-sgadmin-csr.json">>

ConfigFiles == {ConfigOrder[i] : i \in 1..Len(ConfigOrder)}

LeafReqs == {ReqName[i] : i \in Identities}

\* the four leaf descriptors in every order a Go map iteration can yield
LeafPerms == {p \in [1..4 -> LeafReqs] : \A i, j \in 1..4 : p[i] = p[j] => i = j}

\* the keys of the Secret's Data map
BundleKeys == {"node-keystore.jks", "sgadmin-keystore.jks", "truststore.jks", "ca.pem",
               "ca-key.pem", "node.pem", "node-key.pem", "node-key.pkcs8.pem",
               "sgadmin.pem", "sgadmin-key.pem", "kibana-key.pem", "kibana.pem",
               "cerebro-key.pem", "cerebro.pem"}

RequiredKeys == {"node-keystore.jks", "sgadmin-keystore.jks"}

\* a variant that stores the kibana certificate and key under each other's key
BundleSourceSwapped ==
    [k \in BundleKeys |-> IF k = "kibana-key.pem" THEN "kibana.pem"
                          ELSE IF k = "kibana.pem" THEN "kibana-key.pem"
                          ELSE k]

\* for each key of the Data map, the file whose bytes the variable stored
\* under it was read from (nodeKeyStore <- node-keystore.jks, ...)
BundleSource ==
    [k \in BundleKeys |->
        CASE k = "node-keystore.jks" -> "node-keystore.jks"
          [] k = "sgadmin-keystore.jks" -> "sgadmin-keystore.jks"
          [] k = "truststore.jks" -> "truststore.jks"
          [] k = "ca.pem" -> "ca.pem"
          [] k = "ca-key.pem" -> "ca-key.pem"
          [] k = "node.pem" -> "node.pem"
          [] k = "node-key.pem" -> "node-key.pem"
          [] k = "node-key.pkcs8.pem" -> "node-key.pkcs8.pem"
          [] k = "sgadmin.pem" -> "sgadmin.pem"
          [] k = "sgadmin-key.pem" -> "sgadmin-key.pem"
          [] k = "kibana-key.pem" -> "kibana-key.pem"
          [] k = "kibana.pem" -> "kibana.pem"
          [] k = "cerebro-key.pem" -> "cerebro-key.pem"
          [] k = "cerebro.pem" -> "cerebro.pem"]

VARIABLES
    pc,         \* position of the caller: "idle", a stage of GenerateCerts, "done"
    run,        \* number of GenerateCerts invocations so far
    faults,     \* number of environment faults so far
    certsDir,   \* certsDir: file name -> content or Absent
    configDir,  \* configDir: file name -> "absent", "partial" or "full"
    calls,      \* how often each stage was invoked in the current run
    res,        \* what each stage returned in the current run: "none", "ok", "err"
    ret,        \* what GenerateCerts returned: "none", "nil" or the failing stage
    assembly,   \* the last CreateCertsSecret call of the current run
    cmds,       \* pipeCommands: its commands
    pi,         \* pipeCommands: loop index
    ppc,        \* pipeCommands: "idle", "loop", "final", "ret"
    pret,       \* pipeCommands: the returned (output, error)
    cfgData,    \* configDir by content: file name -> document written to it
    gen,        \* the last generateConfig call: its arguments and result, the files
                \* it wrote in full, the files that came after the failing one
    cln,        \* the cleanUp calls made in a row on configDir: how many (up to 2),
                \* the entries the first and the last found, whether the last met
                \* no filesystem error, what it returned
    cpc,        \* two concurrent callers: position of each in GenerateCerts
    cret,       \* two concurrent callers: what GenerateCerts returned to each
    store,      \* the Secrets of the cluster: namespace -> set of Secret objects
    lastOp,     \* per (namespace, clusterName): the last store call that succeeded
    ans         \* the last CertsSecretExists call and what it returned

provVars == <<pc, run, faults, certsDir, configDir, calls, res, ret, assembly>>
pipeVars == <<cmds, pi, ppc, pret>>
cfgVars == <<cfgData, gen, cln>>
concVars == <<cpc, cret>>
storeVars == <<store, lastOp, ans>>
auxVars == <<cfgData, gen, cln, cpc, cret, store, lastOp, ans>>
vars == <<pc, run, faults, certsDir, configDir, calls, res, ret, assembly,
          cmds, pi, ppc, pret, cfgData, gen, cln, cpc, cret, store, lastOp, ans>>

(***************************************************************************)
(* cleanUp (certs.go:328-345).                                             *)
(***************************************************************************)
\* d.Readdirnames(-1): the names present, in listing order
Listing(dir, order, absent) == SelectSeq(order, LAMBDA f : dir[f] # absent)

\* what the filesystem can answer: all goes well, os.Open fails, Readdirnames
\* fails, or the RemoveAll of the at-th listed name fails
CleanOutcomes(names) ==
    {[kind |-> "ok", at |-> 0], [kind |-> "open", at |-> 0], [kind |-> "list", at |-> 0]}
        \cup {[kind |-> "remove", at |-> k] : k \in 1..Len(names)}

\* a variant whose loop stops one name short of the end of the listing
cleanUpSkipsLast(dir, order, absent, o) ==
    LET names == Listing(dir, order, absent)
        gone == IF o.kind = "ok" THEN {names[k] : k \in 1..(Len(names) - 1)}
                ELSE IF o.kind = "remove" THEN {names[k] : k \in 1..(o.at - 1)}
                ELSE {}
    IN  [dir |-> [f \in DOMAIN dir |-> IF f \in gone THEN absent ELSE dir[f]],
         err |-> o.kind # "ok"]

\* the directory and the error after cleanUp: names are removed in listing
\* order up to the first failing removal
cleanUp(dir, order, absent, o) ==
    LET names == Listing(dir, order, absent)
        gone == IF o.kind = "ok" THEN {names[k] : k \in 1..Len(names)}
                ELSE IF o.kind = "remove" THEN {names[k] : k \in 1..(o.at - 1)}
                ELSE {}
    IN  [dir |-> [f \in DOMAIN dir |-> IF f \in gone THEN absent ELSE dir[f]],
         err |-> o.kind # "ok"]

(***************************************************************************)
(* generateConfig (certs.go:75-170).  The descriptors are written in the   *)
(* order ca-config.json, ca-csr.json, then the four leaf requests in map   *)
(* iteration order.  failAt = 0: every write succeeds; otherwise the       *)
(* failAt-th file fails, in os.Create (the nil file's Write then fails)    *)
(* or in Write.                                                            *)
(***************************************************************************)
\* a variant that notes the failure and goes on to write the remaining files
generateConfigKeepGoing(dir, perm, failAt, how) ==
    LET order == <<"ca-config.json", "ca-csr.json">> \o perm
        idx(f) == CHOOSE i \in 1..Len(order) : order[i] = f
    IN  [dir |-> [f \in DOMAIN dir |->
                    IF failAt = 0 \/ idx(f) # failAt THEN "full"
                    ELSE IF how = "write" THEN "partial"
                    ELSE dir[f]],
         err |-> failAt # 0]

generateConfig(dir, perm, failAt, how) ==
    LET order == <<"ca-config.json", "ca-csr.json">> \o perm
        idx(f) == CHOOSE i \in 1..Len(order) : order[i] = f
    IN  [dir |-> [f \in DOMAIN dir |->
                    IF failAt = 0 \/ idx(f) < failAt THEN "full"
                    ELSE IF idx(f) = failAt /\ how = "write" THEN "partial"
                    ELSE dir[f]],
         err |-> failAt # 0]

(***************************************************************************)
(* pipeCommands (certs.go:348-362), one step per loop iteration.           *)
(***************************************************************************)
NewCmd == [st |-> "new", out |-> NoData, code |-> "none", stdin |-> 0]

NoRet == [out |-> NilBytes, err |-> "none"]

\* the call: commands[:len(commands)-1] is empty for a single command
PipeCallStep(n) ==
    /\ ppc = "idle"
    /\ cmds' = [i \in 1..n |-> NewCmd]
    /\ pi' = 1
    /\ ppc' = IF n = 1 THEN "final" ELSE "loop"
    /\ pret' = NoRet

\* a variant of the loop that never assigns the next command's Stdin
PipeLoopStepUnwired(pe, ok, d) ==
    /\ ppc = "loop"
    /\ IF pe
       THEN /\ pret' = [out |-> NilBytes, err |-> "pipe"]
            /\ ppc' = "ret"
            /\ UNCHANGED <<cmds, pi>>
       ELSE /\ cmds' = [cmds EXCEPT ![pi].st = IF ok THEN "running" ELSE "failed",
                                    ![pi].out = IF ok THEN d ELSE NoData]
            /\ pi' = pi + 1
            /\ ppc' = IF pi + 1 = Len(cmds) THEN "final" ELSE "loop"
            /\ UNCHANGED pret

\* one iteration of the loop (349-356): StdoutPipe, whose error is returned;
\* Start, whose error is dropped; the pipe becomes the next command's Stdin.
\* pe: StdoutPipe fails; ok: Start succeeds; d: what the process writes.
PipeLoopStep(pe, ok, d) ==
    /\ ppc = "loop"
    /\ IF pe
       THEN /\ pret' = [out |-> NilBytes, err |-> "pipe"]
            /\ ppc' = "ret"
            /\ UNCHANGED <<cmds, pi>>
       ELSE /\ cmds' = [cmds EXCEPT ![pi].st = IF ok THEN "running" ELSE "failed",
                                    ![pi].out = IF ok THEN d ELSE NoData,
                                    ![pi + 1].stdin = pi]
            /\ pi' = pi + 1
            /\ ppc' = IF pi + 1 = Len(cmds) THEN "final" ELSE "loop"
            /\ UNCHANGED pret

\* what the last command finds on its standard input
PipeInput(cs) ==
    LET src == cs[Len(cs)].stdin
    IN  IF src = 0 \/ cs[src].st \notin {"running", "exited"}
        THEN NoData ELSE cs[src].out

\* a variant that hands back what Output() captured together with its error
PipeResultKeepsOutput(o, d) == [out |-> d, err |-> IF o = "zero" THEN "nil" ELSE o]

\* the result of pipeCommands from the last command's Output()
PipeResult(o, d) ==
    IF o = "zero" THEN [out |-> d, err |-> "nil"] ELSE [out |-> NilBytes, err |-> o]

\* lines 357-361: Output() starts the last command, waits for it and captures
\* its output d.  o: "startfail", "nonzero" or "zero".
PipeFinalStep(o, d) ==
    /\ ppc = "final"
    /\ cmds' = [cmds EXCEPT ![Len(cmds)].st = IF o = "startfail" THEN "failed" ELSE "exited",
                            ![Len(cmds)].out = d,
                            ![Len(cmds)].code = IF o = "startfail" THEN "none" ELSE o]
    /\ pret' = PipeResult(o, d)
    /\ ppc' = "ret"
    /\ UNCHANGED pi

ToolOutcomes == {"startfail", "nonzero", "zero"}

\* a started command that nobody waits for exits when it likes
ProcExit ==
    /\ \E i \in 1..Len(cmds), c \in {"zero", "nonzero"} :
          /\ cmds[i].st = "running"
          /\ cmds' = [cmds EXCEPT ![i].st = "exited", ![i].code = c]
    /\ UNCHANGED <<pi, ppc, pret>>
    /\ UNCHANGED provVars
    /\ UNCHANGED auxVars

\* the caller takes the result; the command values go out of scope
PipeReturnStep ==
    /\ ppc = "ret"
    /\ ppc' = "idle"
    /\ cmds' = <<>>
    /\ pi' = 1
    /\ pret' = NoRet

(***************************************************************************)
(* The tools run by GenerateCerts.                                         *)
(***************************************************************************)
Present(dir, files) == \A f \in files : dir[f] # Absent

\* cfssl gencert can sign when the descriptors it is given exist, and for a
\* leaf the CA certificate and key
CanSign(stage, cdir, cfg) ==
    IF stage = "ca" THEN cfg["ca-csr.json"] = "full"
    ELSE /\ cfg["ca-config.json"] = "full"
         /\ cfg[ReqName[stage]] = "full"
         /\ Present(cdir, {"ca.pem", "ca-key.pem"})
         /\ cdir["ca.pem"][2] = cdir["ca-key.pem"][2]

\* the certificate and key cfssl gencert emits in run r
Signed(stage, cdir, r) == IF stage = "ca" THEN <<r, r>> ELSE <<r, cdir["ca.pem"][2]>>

\* what the first command of an issuance pipeline can write to the pipe
SignOutputs(stage, cdir, cfg, r) ==
    {NoData} \cup (IF CanSign(stage, cdir, cfg) THEN {Signed(stage, cdir, r)} ELSE {})

\* a variant in which cfssljson writes every key to the CA's key file
SplitKeyToCA(cdir, stage, o, input) ==
    IF o = "zero" /\ input # NoData
    THEN [cdir EXCEPT ![PemName[stage]] = input \o <<PemName[stage]>>,
                      ![KeyName["ca"]] = input \o <<KeyName[stage]>>]
    ELSE cdir

\* cfssljson -bare certsDir/<stage>: splits what it read into the two PEM files
Split(cdir, stage, o, input) ==
    IF o = "zero" /\ input # NoData
    THEN [cdir EXCEPT ![PemName[stage]] = input \o <<PemName[stage]>>,
                      ![KeyName[stage]] = input \o <<KeyName[stage]>>]
    ELSE cdir

\* one conversion of GenerateCerts (certs.go:205-248): the tool's effect on
\* certsDir and the error Output() reports
Conversion(cdir, c, o, r) ==
    [dir |-> IF o = "zero" /\ Present(cdir, ConvIn[c])
             THEN [cdir EXCEPT ![ConvOut[c]] = <<r, cdir[ConvMain[c]][2], ConvOut[c]>>]
             ELSE cdir,
     err |-> o # "zero"]

(***************************************************************************)
(* CreateCertsSecret (certs.go:271-326).                                   *)
(***************************************************************************)
EmptyBundle == [k \in BundleKeys |-> NoData]

NoAssembly == [ret |-> "none", created |-> FALSE, data |-> EmptyBundle, unreadable |-> {}]

\* ioutil.ReadFile: (content, nil) or (nil, err)
ReadFile(cdir, f, unreadable) ==
    IF cdir[f] = Absent \/ f \in unreadable
    THEN [data |-> NoData, err |-> TRUE]
    ELSE [data |-> cdir[f], err |-> FALSE]

\* a variant that reads sgadmin-keystore.jks like the best-effort files
CreateCertsSecretLenient(cdir, unreadable, createErr) ==
    IF ReadFile(cdir, "node-keystore.jks", unreadable).err
    THEN [ret |-> "read", created |-> FALSE, data |-> EmptyBundle, unreadable |-> unreadable]
    ELSE [ret |-> IF createErr THEN "create" ELSE "nil",
          created |-> TRUE,
          data |-> [k \in BundleKeys |-> ReadFile(cdir, BundleSource[k], unreadable).data],
          unreadable |-> unreadable]

\* ret: "read" (a keystore could not be read), "create" (the store refused),
\* "nil"; created: Secrets(namespace).Create was called with data
CreateCertsSecret(cdir, unreadable, createErr) ==
    IF ReadFile(cdir, "node-keystore.jks", unreadable).err
    THEN [ret |-> "read", created |-> FALSE, data |-> EmptyBundle, unreadable |-> unreadable]
    ELSE IF ReadFile(cdir, "sgadmin-keystore.jks", unreadable).err
    THEN [ret |-> "read", created |-> FALSE, data |-> EmptyBundle, unreadable |-> unreadable]
    ELSE [ret |-> IF createErr THEN "create" ELSE "nil",
          created |-> TRUE,
          data |-> [k \in BundleKeys |-> ReadFile(cdir, BundleSource[k], unreadable).data],
          unreadable |-> unreadable]

(***************************************************************************)
(* GenerateCerts (certs.go:173-251), one action per statement.             *)
(***************************************************************************)
Fault(cost) ==
    /\ faults + cost <= MaxFaults
    /\ faults' = faults + cost

Invoke(s) == calls' = [calls EXCEPT ![s] = @ + 1]

\* a variant that logs the error of stage s and carries on
AdvanceKeepGoing(s, err) ==
    /\ res' = [res EXCEPT ![s] = IF err THEN "err" ELSE "ok"]
    /\ pc' = NextStage(s)
    /\ ret' = IF NextStage(s) = "done" THEN "nil" ELSE ret

\* "if err != nil { return err }" after stage s, else on to the next statement
Advance(s, err) ==
    /\ res' = [res EXCEPT ![s] = IF err THEN "err" ELSE "ok"]
    /\ IF err
       THEN pc' = "done" /\ ret' = s
       ELSE /\ pc' = NextStage(s)
            /\ ret' = IF NextStage(s) = "done" THEN "nil" ELSE ret

\* lines 175-176: cleanUp's return value is not assigned
AfterClean(s, err) ==
    /\ res' = [res EXCEPT ![s] = IF err THEN "err" ELSE "ok"]
    /\ pc' = NextStage(s)
    /\ UNCHANGED ret

\* the values of the other operations' variables before their first call
AbsentDoc == [kind |-> "absent"]

PartialDoc == [kind |-> "partial"]

CleanConfigDir == [f \in ConfigFiles |-> AbsentDoc]

NoGen == [n |-> 0, namespace |-> "", clusterName |-> "", written |-> {}, later |-> {},
          failAt |-> 0, err |-> FALSE, clean |-> TRUE]

NoCln == [n |-> 0, first |-> 0, entries |-> 0, clean |-> TRUE, err |-> FALSE]

Callers == {1, 2}

Namespaces == {"default", "prod"}

ClusterNames == {"es1", "es2"}

NoAns == [called |-> FALSE, namespace |-> "", clusterName |-> "", failed |-> FALSE,
          val |-> FALSE]

InitAux ==
    /\ cfgData = CleanConfigDir
    /\ gen = NoGen
    /\ cln = NoCln
    /\ cpc = [p \in Callers |-> "idle"]
    /\ cret = [p \in Callers |-> "none"]
    /\ store = [ns \in Namespaces |-> {}]
    /\ lastOp = [k \in Namespaces \X ClusterNames |-> "none"]
    /\ ans = NoAns

Init ==
    /\ InitAux
    /\ pc = "idle"
    /\ run = 0
    /\ faults = 0
    /\ certsDir = [f \in CertFiles |-> Absent]
    /\ configDir = [f \in ConfigFiles |-> "absent"]
    /\ calls = [s \in Stages |-> 0]
    /\ res = [s \in Stages |-> "none"]
    /\ ret = "none"
    /\ assembly = NoAssembly
    /\ cmds = <<>>
    /\ pi = 1
    /\ ppc = "idle"
    /\ pret = NoRet

GenerateCertsCall ==
    /\ pc \in {"idle", "done"}
    /\ run < MaxRuns
    /\ run' = run + 1
    /\ pc' = StageOrder[1]
    /\ calls' = [s \in Stages |-> 0]
    /\ res' = [s \in Stages |-> "none"]
    /\ ret' = "none"
    /\ assembly' = NoAssembly
    /\ UNCHANGED <<faults, certsDir, configDir>>
    /\ UNCHANGED pipeVars
    /\ UNCHANGED auxVars

\* cleanUp(certsDir)
CleanCerts ==
    /\ pc = "cleanCerts"
    /\ \E o \in CleanOutcomes(Listing(certsDir, CertsOrder, Absent)) :
          LET r == cleanUp(certsDir, CertsOrder, Absent, o)
          IN  /\ certsDir' = r.dir
              /\ Fault(IF r.err THEN 1 ELSE 0)
              /\ AfterClean("cleanCerts", r.err)
    /\ Invoke("cleanCerts")
    /\ UNCHANGED <<run, configDir, assembly>>
    /\ UNCHANGED pipeVars
    /\ UNCHANGED auxVars

\* cleanUp(configDir)
CleanConfig ==
    /\ pc = "cleanConfig"
    /\ \E o \in CleanOutcomes(Listing(configDir, ConfigOrder, "absent")) :
          LET r == cleanUp(configDir, ConfigOrder, "absent", o)
          IN  /\ configDir' = r.dir
              /\ Fault(IF r.err THEN 1 ELSE 0)
              /\ AfterClean("cleanConfig", r.err)
    /\ Invoke("cleanConfig")
    /\ UNCHANGED <<run, certsDir, assembly>>
    /\ UNCHANGED pipeVars
    /\ UNCHANGED auxVars

\* lines 179-182
GenConfig ==
    /\ pc = "genConfig"
    /\ \E perm \in LeafPerms, failAt \in 0..Len(ConfigOrder), how \in {"create", "write"} :
          LET r == generateConfig(configDir, perm, failAt, how)
          IN  /\ configDir' = r.dir
              /\ Fault(IF r.err THEN 1 ELSE 0)
              /\ Advance("genConfig", r.err)
    /\ Invoke("genConfig")
    /\ UNCHANGED <<run, certsDir, assembly>>
    /\ UNCHANGED pipeVars
    /\ UNCHANGED auxVars

\* lines 186-188 and 197-199: the two commands are built and pipeCommands called
IssueCall ==
    /\ pc \in PipelineStages
    /\ PipeCallStep(2)
    /\ Invoke(pc)
    /\ UNCHANGED <<pc, run, faults, certsDir, configDir, res, ret, assembly>>
    /\ UNCHANGED auxVars

\* pipeCommands' loop with cfssl gencert as the command
IssueLoop ==
    /\ pc \in PipelineStages
    /\ \E pe \in BOOLEAN, ok \in BOOLEAN, d \in SignOutputs(pc, certsDir, configDir, run) :
          /\ pe => ok /\ d = NoData
          /\ ~ok => d = NoData
          /\ PipeLoopStep(pe, ok, d)
          /\ Fault(IF pe \/ ~ok \/ (d = NoData /\ CanSign(pc, certsDir, configDir))
                   THEN 1 ELSE 0)
    /\ UNCHANGED <<pc, run, certsDir, configDir, calls, res, ret, assembly>>
    /\ UNCHANGED auxVars

\* pipeCommands' Output() with cfssljson as the command; it prints nothing
IssueFinal ==
    /\ pc \in PipelineStages
    /\ \E o \in ToolOutcomes :
          /\ PipeFinalStep(o, NoData)
          /\ certsDir' = Split(certsDir, pc, o, PipeInput(cmds))
          /\ Fault(IF o = "zero" THEN 0 ELSE 1)
    /\ UNCHANGED <<pc, run, configDir, calls, res, ret, assembly>>
    /\ UNCHANGED auxVars

\* lines 188-191 and 199-202: the error of pipeCommands is returned
IssueReturn ==
    /\ pc \in PipelineStages
    /\ PipeReturnStep
    /\ Advance(pc, pret.err # "nil")
    /\ UNCHANGED <<run, faults, certsDir, configDir, calls, assembly>>
    /\ UNCHANGED auxVars

\* lines 205-248: one conversion, its command run by Output()
Convert ==
    /\ pc \in ConversionStages
    /\ \E o \in ToolOutcomes :
          LET r == Conversion(certsDir, pc, o, run)
          IN  /\ certsDir' = r.dir
              /\ Fault(IF r.err THEN 1 ELSE 0)
              /\ Advance(pc, r.err)
    /\ Invoke(pc)
    /\ UNCHANGED <<run, configDir, assembly>>
    /\ UNCHANGED pipeVars
    /\ UNCHANGED auxVars

\* a call of CreateCertsSecret between provisioning runs
CreateCertsSecretCall ==
    /\ pc \in {"idle", "done"}
    /\ \E u \in {{}} \cup {{k} : k \in BundleKeys}, ce \in BOOLEAN :
          LET a == CreateCertsSecret(certsDir, u, ce)
          IN  /\ ce => a.created
              /\ assembly' = a
              /\ Fault(Cardinality(u) + (IF ce THEN 1 ELSE 0))
    /\ UNCHANGED <<pc, run, certsDir, configDir, calls, res, ret>>
    /\ UNCHANGED pipeVars
    /\ UNCHANGED auxVars

Next ==
    \/ GenerateCertsCall
    \/ CleanCerts
    \/ CleanConfig
    \/ GenConfig
    \/ IssueCall
    \/ IssueLoop
    \/ IssueFinal
    \/ IssueReturn
    \/ ProcExit
    \/ Convert
    \/ CreateCertsSecretCall

Spec == Init /\ [][Next]_vars

(***************************************************************************)
(* pipeCommands on its own, with any commands.                             *)
(***************************************************************************)
PipeBytes == {NoData, <<1, 1>>}

PipeCall ==
    /\ \E n \in 1..MaxCmds : PipeCallStep(n)
    /\ UNCHANGED provVars
    /\ UNCHANGED auxVars

PipeLoop ==
    /\ \E pe \in BOOLEAN, ok \in BOOLEAN, d \in PipeBytes :
          /\ pe => ok /\ d = NoData
          /\ ~ok => d = NoData
          /\ PipeLoopStep(pe, ok, d)
    /\ UNCHANGED provVars
    /\ UNCHANGED auxVars

PipeFinal ==
    /\ \E o \in ToolOutcomes, d \in PipeBytes :
          /\ o = "startfail" => d = NoData
          /\ PipeFinalStep(o, d)
    /\ UNCHANGED provVars
    /\ UNCHANGED auxVars

PipeReturn ==
    /\ PipeReturnStep
    /\ UNCHANGED provVars
    /\ UNCHANGED auxVars

NextPipe ==
    \/ PipeCall
    \/ PipeLoop
    \/ PipeFinal
    \/ ProcExit
    \/ PipeReturn

SpecPipe == Init /\ [][NextPipe]_vars

(***************************************************************************)
(* The leaf loop of GenerateCerts (193-203) with its four iterations taken *)
(* in any order.  It starts where the loop starts: both directories        *)
(* cleaned, the descriptors written, the CA issued, all in run 1.          *)
(***************************************************************************)
BeforeLeaves == {"cleanCerts", "cleanConfig", "genConfig", "ca"}

CertsDirWithCA ==
    Split([f \in CertFiles |-> Absent], "ca", "zero",
          Signed("ca", [f \in CertFiles |-> Absent], 1))

InitLeaf ==
    /\ InitAux
    /\ pc = "pick"
    /\ run = 1
    /\ faults = 0
    /\ certsDir = CertsDirWithCA
    /\ \E perm \in LeafPerms :
          configDir = generateConfig([f \in ConfigFiles |-> "absent"], perm, 0, "create").dir
    /\ calls = [s \in Stages |-> IF s \in BeforeLeaves THEN 1 ELSE 0]
    /\ res = [s \in Stages |-> IF s \in BeforeLeaves THEN "ok" ELSE "none"]
    /\ ret = "none"
    /\ assembly = NoAssembly
    /\ cmds = <<>>
    /\ pi = 1
    /\ ppc = "idle"
    /\ pret = NoRet

\* certsDir after the loop ran over the names of order with every tool doing
\* its work
RECURSIVE IssuedInOrder(_, _)
IssuedInOrder(cdir, order) ==
    IF order = <<>> THEN cdir
    ELSE IssuedInOrder(Split(cdir, Head(order), "zero", Signed(Head(order), cdir, 1)),
                       Tail(order))

\* the loop takes up a name it has not had yet
LeafPick ==
    /\ pc = "pick"
    /\ \E name \in Identities :
          /\ res[name] = "none"
          /\ pc' = name
    /\ UNCHANGED <<run, faults, certsDir, configDir, calls, res, ret, assembly>>
    /\ UNCHANGED <<pipeVars, auxVars>>

\* lines 199-202: an error is returned; otherwise the loop goes on, and after
\* the fourth name the statement after the loop is next
LeafReturn ==
    /\ pc \in Identities
    /\ PipeReturnStep
    /\ res' = [res EXCEPT ![pc] = IF pret.err # "nil" THEN "err" ELSE "ok"]
    /\ IF pret.err # "nil"
       THEN pc' = "done" /\ ret' = pc
       ELSE /\ pc' = IF \A j \in Identities \ {pc} : res[j] = "ok"
                     THEN NextStage(LeafOrder[Len(LeafOrder)]) ELSE "pick"
            /\ UNCHANGED ret
    /\ UNCHANGED <<run, faults, certsDir, configDir, calls, assembly>>
    /\ UNCHANGED auxVars

NextLeaf ==
    \/ LeafPick
    \/ IssueCall
    \/ IssueLoop
    \/ IssueFinal
    \/ ProcExit
    \/ LeafReturn

SpecLeaf == InitLeaf /\ [][NextLeaf]_vars

(***************************************************************************)
(* Two callers in GenerateCerts at once, on the same configDir and         *)
(* certsDir.  A step is one statement of one caller.  The environment is   *)
(* at its best: no filesystem call fails, and a tool fails exactly when a  *)
(* file it is given is missing.  What caller p writes carries p where a    *)
(* sequential run carries its run number.                                  *)
(***************************************************************************)
ConcAdvance(p, s, err) ==
    /\ cpc' = [cpc EXCEPT ![p] = IF err THEN "done" ELSE NextStage(s)]
    /\ cret' = [cret EXCEPT ![p] = IF err THEN s
                                   ELSE IF NextStage(s) = "done" THEN "nil" ELSE @]

\* a variant in which a caller enters only while no other caller is inside
ConcCallLocked(p) ==
    /\ cpc[p] = "idle"
    /\ \A q \in Callers \ {p} : cpc[q] \in {"idle", "done"}
    /\ cpc' = [cpc EXCEPT ![p] = StageOrder[1]]
    /\ UNCHANGED <<cret, certsDir, configDir>>

\* caller p enters GenerateCerts
ConcCall(p) ==
    /\ cpc[p] = "idle"
    /\ cpc' = [cpc EXCEPT ![p] = StageOrder[1]]
    /\ UNCHANGED <<cret, certsDir, configDir>>

\* lines 175-176
ConcClean(p) ==
    /\ \/ /\ cpc[p] = "cleanCerts"
          /\ certsDir' = cleanUp(certsDir, CertsOrder, Absent, [kind |-> "ok", at |-> 0]).dir
          /\ UNCHANGED configDir
       \/ /\ cpc[p] = "cleanConfig"
          /\ configDir' = cleanUp(configDir, ConfigOrder, "absent",
                                  [kind |-> "ok", at |-> 0]).dir
          /\ UNCHANGED certsDir
    /\ cpc' = [cpc EXCEPT ![p] = NextStage(cpc[p])]
    /\ UNCHANGED cret

\* lines 179-182
ConcGenConfig(p) ==
    /\ cpc[p] = "genConfig"
    /\ \E perm \in LeafPerms :
          LET r == generateConfig(configDir, perm, 0, "create")
          IN  /\ configDir' = r.dir
              /\ ConcAdvance(p, "genConfig", r.err)
    /\ UNCHANGED certsDir

\* lines 186-191 and 197-202: cfssl gencert piped into cfssljson, which
\* exits non-zero when it is given nothing to split
ConcIssue(p) ==
    /\ cpc[p] \in PipelineStages
    /\ LET s == cpc[p]
           d == IF CanSign(s, certsDir, configDir) THEN Signed(s, certsDir, p) ELSE NoData
           o == IF d = NoData THEN "nonzero" ELSE "zero"
       IN  /\ certsDir' = Split(certsDir, s, o, d)
           /\ ConcAdvance(p, s, PipeResult(o, NoData).err # "nil")
    /\ UNCHANGED configDir

\* lines 205-248
ConcConvert(p) ==
    /\ cpc[p] \in ConversionStages
    /\ LET c == cpc[p]
           o == IF Present(certsDir, ConvIn[c]) THEN "zero" ELSE "nonzero"
           r == Conversion(certsDir, c, o, p)
       IN  /\ certsDir' = r.dir
           /\ ConcAdvance(p, c, r.err)
    /\ UNCHANGED configDir

ConcStep(p) ==
    \/ ConcClean(p)
    \/ ConcGenConfig(p)
    \/ ConcIssue(p)
    \/ ConcConvert(p)

ConcRest ==
    /\ UNCHANGED <<pc, run, faults, calls, res, ret, assembly>>
    /\ UNCHANGED <<pipeVars, cfgVars, storeVars>>

ConcEnter == (\E p \in Callers : ConcCall(p)) /\ ConcRest

ConcCleaning == (\E p \in Callers : ConcClean(p)) /\ ConcRest

ConcGenerating == (\E p \in Callers : ConcGenConfig(p)) /\ ConcRest

ConcIssuing == (\E p \in Callers : ConcIssue(p)) /\ ConcRest

ConcConverting == (\E p \in Callers : ConcConvert(p)) /\ ConcRest

NextConc ==
    \/ ConcEnter
    \/ ConcCleaning
    \/ ConcGenerating
    \/ ConcIssuing
    \/ ConcConverting

SpecConc == Init /\ [][NextConc]_vars

(***************************************************************************)
(* CertsSecretExists, CreateCertsSecret and DeleteCertsSecret against the  *)
(* Secrets of the cluster.  The store is the environment: Get and Delete   *)
(* of a name that is not there and Create of a name that is there return   *)
(* an error, and any call may fail for reasons of its own.                 *)
(***************************************************************************)
\* the package constant secretName; its value is not set in certs.go
secretName == "secretName"

\* fmt.Sprintf("%s-%s", secretName, clusterName)
SecretName(clusterName) == secretName \o "-" \o clusterName

\* Secrets(namespace).Get(name): the objects of that name, none or one
StoreGet(st, namespace, name) == {x \in st[namespace] : x.name = name}

\* a variant that looks the Secret up in the namespace "default"
CertsSecretExistsInDefault(st, namespace, clusterName, getFails) ==
    LET found == StoreGet(st, "default", SecretName(clusterName))
    IN  IF getFails \/ found = {} THEN FALSE
        ELSE \E secret \in found : secret.name # ""

\* lines 254-263: false when Get returns an error, true when the Secret it
\* returns has a name
CertsSecretExists(st, namespace, clusterName, getFails) ==
    LET found == StoreGet(st, namespace, SecretName(clusterName))
    IN  IF getFails \/ found = {} THEN FALSE
        ELSE \E secret \in found : secret.name # ""

\* lines 266-268: the store after the call and the error returned
DeleteCertsSecret(st, namespace, clusterName, deleteFails) ==
    LET found == StoreGet(st, namespace, SecretName(clusterName))
    IN  IF deleteFails \/ found = {}
        THEN [store |-> st, err |-> TRUE]
        ELSE [store |-> [st EXCEPT ![namespace] = @ \ found], err |-> FALSE]

\* certsDir after the conversions of order, every tool doing its work
RECURSIVE ConvertedInOrder(_, _)
ConvertedInOrder(cdir, order) ==
    IF order = <<>> THEN cdir
    ELSE ConvertedInOrder(Conversion(cdir, Head(order), "zero", 1).dir, Tail(order))

\* certsDir after a first GenerateCerts in which nothing went wrong
ProvisionedDir ==
    ConvertedInOrder(IssuedInOrder(CertsDirWithCA, LeafOrder),
                     SelectSeq(StageOrder, LAMBDA t : t \in ConversionStages))

InitStore ==
    /\ InitAux
    /\ pc = "idle"
    /\ run \in {0, 1}
    /\ faults = 0
    /\ certsDir = IF run = 0 THEN [f \in CertFiles |-> Absent] ELSE ProvisionedDir
    /\ configDir = IF run = 0 THEN [f \in ConfigFiles |-> "absent"]
                   ELSE [f \in ConfigFiles |-> "full"]
    /\ calls = [s \in Stages |-> 0]
    /\ res = [s \in Stages |-> "none"]
    /\ ret = "none"
    /\ assembly = NoAssembly
    /\ cmds = <<>>
    /\ pi = 1
    /\ ppc = "idle"
    /\ pret = NoRet

StoreRest ==
    /\ UNCHANGED <<pc, run, faults, certsDir, configDir, calls, res, ret>>
    /\ UNCHANGED <<pipeVars, cfgVars, concVars>>

\* CreateCertsSecret(namespace, clusterName, certsDir): the Secret is named at
\* line 300 and created in namespace at line 320
StoreCreate ==
    /\ \E namespace \in Namespaces, clusterName \in ClusterNames, createFails \in BOOLEAN :
          LET there == StoreGet(store, namespace, SecretName(clusterName)) # {}
              a == CreateCertsSecret(certsDir, {}, createFails \/ there)
              made == a.created /\ a.ret = "nil"
          IN  /\ assembly' = a
              /\ store' = IF made
                          THEN [store EXCEPT ![namespace] =
                                  @ \cup {[name |-> SecretName(clusterName), data |-> a.data]}]
                          ELSE store
              /\ lastOp' = IF made THEN [lastOp EXCEPT ![<<namespace, clusterName>>] = "create"]
                           ELSE lastOp
    /\ ans' = NoAns
    /\ StoreRest

StoreDelete ==
    /\ \E namespace \in Namespaces, clusterName \in ClusterNames, deleteFails \in BOOLEAN :
          LET r == DeleteCertsSecret(store, namespace, clusterName, deleteFails)
          IN  /\ store' = r.store
              /\ lastOp' = IF r.err THEN lastOp
                           ELSE [lastOp EXCEPT ![<<namespace, clusterName>>] = "delete"]
    /\ ans' = NoAns
    /\ UNCHANGED assembly
    /\ StoreRest

StoreExists ==
    /\ \E namespace \in Namespaces, clusterName \in ClusterNames, getFails \in BOOLEAN :
          ans' = [called |-> TRUE, namespace |-> namespace, clusterName |-> clusterName,
                  failed |-> getFails,
                  val |-> CertsSecretExists(store, namespace, clusterName, getFails)]
    /\ UNCHANGED <<store, lastOp, assembly>>
    /\ StoreRest

NextStore ==
    \/ StoreCreate
    \/ StoreDelete
    \/ StoreExists

SpecStore == InitStore /\ [][NextStore]_vars

(***************************************************************************)
(* generateConfig and cleanUp on configDir, by content.  A Go string is a  *)
(* string, fmt.Sprintf is concatenation, and the document in a file is     *)
(* the JSON object json.Marshal makes of the struct: a record whose fields *)
(* are the json tags, a field tagged omitempty left out when it is "".     *)
(***************************************************************************)
MaxGens == 1
MaxConfigFaults == 1

\* the Hosts literal of a csr (91-96 and 141-146) for the name prefix k
Hosts(k, namespace, clusterName) ==
    LET svc == k \o "-" \o clusterName
    IN  <<"localhost",
          svc,
          svc \o "." \o namespace,
          svc \o "." \o namespace \o ".svc.cluster.local">>

caConfig ==
    [signing |-> [default |->
        [usages |-> <<"signing", "key encipherment", "server auth", "client auth">>,
         expiry |-> "8760h"]]]

caCSR(namespace, clusterName) ==
    [CN |-> "",
     hosts |-> Hosts("elasticsearch", namespace, clusterName),
     key |-> [algo |-> "rsa", size |-> 2048],
     names |-> <<[C |-> "US", L |-> "Pittsburgh", O |-> "elasticsearch-operator",
                  OU |-> "k8s", ST |-> "Pennsylvania"]>>]

\* a variant of the leaf request that takes over the CA request's host names
reqWithCAHosts(k, namespace, clusterName) ==
    [CN |-> k,
     hosts |-> Hosts("elasticsearch", namespace, clusterName),
     key |-> [algo |-> "rsa", size |-> 2048],
     names |-> <<[C |-> "", L |-> "operator", O |-> "autogenerated",
                  OU |-> "elasticsearch cluster", ST |-> ""]>>]

\* the csr built in the loop body for the map key k
req(k, namespace, clusterName) ==
    [CN |-> k,
     hosts |-> Hosts(k, namespace, clusterName),
     key |-> [algo |-> "rsa", size |-> 2048],
     names |-> <<[C |-> "", L |-> "operator", O |-> "autogenerated",
                  OU |-> "elasticsearch cluster", ST |-> ""]>>]

\* json.Marshal of a names value: all five fields are omitempty
MarshalNames(v) == [f \in {g \in DOMAIN v : v[g] # ""} |-> v[f]]

\* json.Marshal of a csr: CN is omitempty
MarshalCSR(v) ==
    LET ns == [i \in DOMAIN v.names |-> MarshalNames(v.names[i])]
    IN  IF v.CN = ""
        THEN [hosts |-> v.hosts, key |-> v.key, names |-> ns]
        ELSE [CN |-> v.CN, hosts |-> v.hosts, key |-> v.key, names |-> ns]

\* the key of the map literal (132-137) whose value is the file name f
LeafOf(f) == CHOOSE k \in Identities : ReqName[k] = f

\* the bytes generateConfig hands to f.Write for the file f
Doc(f, namespace, clusterName) ==
    IF f = "ca-config.json" THEN caConfig
    ELSE IF f = "ca-csr.json" THEN MarshalCSR(caCSR(namespace, clusterName))
    ELSE MarshalCSR(req(LeafOf(f), namespace, clusterName))

(***************************************************************************)
\* a variant in which the i-th descriptor written is always that of the
\* i-th identity of GenerateCerts' list, whatever file it goes to
ConfigAfterByPosition(before, namespace, clusterName, perm, failAt, how) ==
    LET w == generateConfig([f \in ConfigFiles |-> "old"], perm, failAt, how).dir
        pos(f) == CHOOSE i \in 1..4 : perm[i] = f
    IN  [f \in ConfigFiles |->
            IF w[f] = "full"
            THEN IF f \in LeafReqs
                 THEN MarshalCSR(req(LeafOrder[pos(f)], namespace, clusterName))
                 ELSE Doc(f, namespace, clusterName)
            ELSE IF w[f] = "partial" THEN PartialDoc
            ELSE before[f]]

\* configDir by content after generateConfig: what generateConfig does to
\* each file (writes it in full, leaves it cut short, does not touch it) is
\* read off generateConfig applied to a directory of untouched files
ConfigAfter(before, namespace, clusterName, perm, failAt, how) ==
    LET w == generateConfig([f \in ConfigFiles |-> "old"], perm, failAt, how).dir
    IN  [f \in ConfigFiles |->
            IF w[f] = "full" THEN Doc(f, namespace, clusterName)
            ELSE IF w[f] = "partial" THEN PartialDoc
            ELSE before[f]]

ConfigFault(cost) ==
    /\ faults + cost <= MaxConfigFaults
    /\ faults' = faults + cost

\* a call of generateConfig(configDir, certsDir, namespace, clusterName)
ConfigGenerate ==
    /\ gen.n < MaxGens
    /\ \E namespace \in Namespaces, clusterName \in ClusterNames, perm \in LeafPerms,
          failAt \in 0..Len(ConfigOrder), how \in {"create", "write"} :
          LET r == generateConfig(configDir, perm, failAt, how)
              order == <<"ca-config.json", "ca-csr.json">> \o perm
          IN  /\ failAt = 0 => how = "create"
              /\ ConfigFault(IF failAt # 0 THEN 1 ELSE 0)
              /\ configDir' = r.dir
              /\ cfgData' = ConfigAfter(cfgData, namespace, clusterName, perm, failAt, how)
              /\ gen' = [n |-> gen.n + 1,
                         namespace |-> namespace,
                         clusterName |-> clusterName,
                         written |-> IF failAt = 0 THEN ConfigFiles
                                     ELSE {order[i] : i \in 1..(failAt - 1)},
                         later |-> IF failAt = 0 THEN {}
                                   ELSE {order[i] : i \in (failAt + 1)..Len(order)},
                         failAt |-> failAt,
                         err |-> r.err,
                         clean |-> cfgData = CleanConfigDir]
    /\ cln' = NoCln
    /\ UNCHANGED <<pc, run, certsDir, calls, res, ret, assembly>>
    /\ UNCHANGED <<pipeVars, concVars, storeVars>>

\* a call of cleanUp(configDir)
ConfigClean ==
    /\ \E o \in CleanOutcomes(Listing(configDir, ConfigOrder, "absent")) :
          LET r == cleanUp(configDir, ConfigOrder, "absent", o)
          IN  /\ ConfigFault(IF o.kind # "ok" THEN 1 ELSE 0)
              /\ configDir' = r.dir
              /\ cfgData' = cleanUp(cfgData, ConfigOrder, AbsentDoc, o).dir
              /\ cln' = [n |-> IF cln.n = 0 THEN 1 ELSE 2,
                         first |-> IF cln.n = 0
                                   THEN Len(Listing(configDir, ConfigOrder, "absent"))
                                   ELSE cln.first,
                         entries |-> Len(Listing(configDir, ConfigOrder, "absent")),
                         clean |-> o.kind = "ok",
                         err |-> r.err]
    /\ gen' = [NoGen EXCEPT !.n = gen.n]
    /\ UNCHANGED <<pc, run, certsDir, calls, res, ret, assembly>>
    /\ UNCHANGED <<pipeVars, concVars, storeVars>>

NextConfig ==
    \/ ConfigGenerate
    \/ ConfigClean

SpecConfig == Init /\ [][NextConfig]_vars

(***************************************************************************)
(* Properties.                                                             *)
(***************************************************************************)
Later(s) == {t \in Stages : StageIndex(t) > StageIndex(s)}

\* the identities whose certificate or key a conversion reads
Reads(c) == {i \in {"ca", "node", "sgadmin"} : {PemName[i], KeyName[i]} \cap ConvIn[c] # {}}

FirstErrorReturned ==
    \A s \in Stages \ {"cleanCerts", "cleanConfig"} :
        /\ calls[s] <= 1
        /\ res[s] = "err" =>
              /\ pc = "done"
              /\ ret = s
              /\ ppc = "idle"
              /\ \A t \in Later(s) : calls[t] = 0

LeafErrorReturned ==
    /\ res["kibana"] = "err"
    /\ res["node"] = "ok"
    /\ pc = "done"
    /\ ret = "kibana"

\* C3: pipeCommands returns an error whenever a command of the sequence failed
\* to start (a non-terminal one included) or the last command exited non-zero.
PipeStartFailureReported ==
    ppc = "ret" =>
        ((\/ \E i \in 1..Len(cmds) : cmds[i].st = "failed"
          \/ cmds[Len(cmds)].code = "nonzero")
            => pret.err # "nil")

\* C4: when the last command exits non-zero, pipeCommands returns an error and
\* a nil output, whatever became of the commands before it.
FinalNonZeroGivesError ==
    (ppc = "ret" /\ Len(cmds) > 0 /\ cmds[Len(cmds)].code = "nonzero")
        => (pret.err # "nil" /\ pret.out = NilBytes)

FinalNonZeroAfterUpstreamFailure ==
    /\ ppc = "ret"
    /\ Len(cmds) = 3
    /\ cmds[1].st = "failed"
    /\ cmds[2].st \in {"running", "exited"}
    /\ cmds[3].code = "nonzero"
    /\ cmds[3].out # NoData

Unread(f) == certsDir[f] = Absent \/ f \in assembly.unreadable

\* C5: CreateCertsSecret fails without calling the store's create when one of
\* the two keystores cannot be read; otherwise it hands the store a bundle
\* that holds both keystores as read from disk and an empty value for every
\* other file that could not be read.
KeystoresRequired ==
    assembly.ret # "none" =>
        /\ (\E k \in RequiredKeys : Unread(k)) =>
              (assembly.ret = "read" /\ ~assembly.created)
        /\ (\A k \in RequiredKeys : ~Unread(k)) =>
              /\ assembly.created
              /\ assembly.ret \in {"nil", "create"}
              /\ \A k \in BundleKeys \ RequiredKeys :
                    Unread(k) => assembly.data[k] = NoData
        /\ assembly.created =>
              \A k \in RequiredKeys :
                  certsDir[k] # Absent /\ assembly.data[k] = certsDir[k]

BundleWithoutKibana ==
    /\ assembly.created
    /\ assembly.ret = "nil"
    /\ certsDir["kibana.pem"] = Absent
    /\ assembly.data["kibana.pem"] = NoData
    /\ assembly.data["node.pem"] # NoData

\* C6: a bundle assembled after GenerateCerts returned success holds only
\* artifacts written by that run, all belonging to the CA of its ca.pem.
BundleConsistent ==
    (ret = "nil" /\ assembly.created) =>
        \A k \in BundleKeys :
            assembly.data[k] # NoData =>
                /\ assembly.data[k][1] = run
                /\ assembly.data["ca.pem"] # NoData =>
                      assembly.data[k][2] = assembly.data["ca.pem"][2]

\* C7: when cleanUp of certsDir or of configDir fails, GenerateCerts does not
\* go on to generate the config and does not return success.
CleanFailureSurfaced ==
    \A s \in {"cleanCerts", "cleanConfig"} :
        res[s] = "err" => (calls["genConfig"] = 0 /\ ret # "nil")

\* C8: when GenerateCerts returns success, certsDir holds the certificate and
\* the key of the CA and of each of the four identities, written in this run.
EveryIdentityHasPair ==
    (pc = "done" /\ ret = "nil") =>
        \A i \in Identities \cup {"ca"} :
            /\ certsDir[PemName[i]] # Absent
            /\ certsDir[PemName[i]][1] = run
            /\ certsDir[KeyName[i]] # Absent
            /\ certsDir[KeyName[i]][1] = run

\* C9: when pipeCommands returns, every command it started has terminated.
AllStartedTerminatedAtReturn ==
    ppc = "ret" => \A i \in 1..Len(cmds) : cmds[i].st # "running"

\* C10: a conversion whose tool exited non-zero (Output() reported an error)
\* or whose output file is missing after the tool exited is reported as an
\* error, and GenerateCerts returns that error.
ConversionFailureReported ==
    \A c \in ConversionStages :
        (res[c] # "none" /\ (res[c] = "err" \/ certsDir[ConvOut[c]] = Absent))
            => (res[c] = "err" /\ pc = "done" /\ ret = c)

\* C18: a bundle handed to the store has exactly the 14 fixed keys; the value
\* under key K is the content of the file K of certsDir, empty when that file
\* is absent or could not be read; no value is the content of a differently
\* named file; and a step of CreateCertsSecret leaves certsDir as it was.
BundleMirrorsCertsDir ==
    /\ [](assembly.created =>
            /\ DOMAIN assembly.data =
                  {"node-keystore.jks", "sgadmin-keystore.jks", "truststore.jks",
                   "ca.pem", "ca-key.pem", "node.pem", "node-key.pem",
                   "node-key.pkcs8.pem", "sgadmin.pem", "sgadmin-key.pem",
                   "kibana-key.pem", "kibana.pem", "cerebro-key.pem", "cerebro.pem"}
            /\ \A k \in DOMAIN assembly.data :
                  /\ assembly.data[k] = IF Unread(k) THEN NoData ELSE certsDir[k]
                  /\ assembly.data[k] # NoData => assembly.data[k][3] = k)
    /\ [][assembly' # assembly /\ assembly'.ret # "none" => certsDir' = certsDir]_vars

BundleWithEmptyCerebroKey ==
    /\ assembly.created
    /\ certsDir["cerebro-key.pem"] = Absent
    /\ assembly.data["cerebro-key.pem"] = NoData
    /\ certsDir["kibana-key.pem"] # Absent
    /\ assembly.data["kibana-key.pem"] = certsDir["kibana-key.pem"]
    /\ assembly.data["kibana.pem"] = certsDir["kibana.pem"]
    /\ assembly.data["kibana.pem"] # assembly.data["kibana-key.pem"]

\* C16: in pipeCommands, once the loop has passed command i its output is the
\* standard input of command i+1; the loop step that starts a command does
\* not wait for it, and the next step never waits for an earlier command; a
\* command has Start called only after every command before it; on success
\* the returned bytes are the captured output of the last command, so when
\* the second of two commands wrote what it read, they are what the first
\* wrote.
PipeWiring ==
    /\ [](\A i \in 1..Len(cmds) :
            /\ cmds[i].stdin \in {0, i - 1}
            /\ (1 < i /\ (i <= pi \/ cmds[i].st # "new")) => cmds[i].stdin = i - 1
            /\ cmds[i].st # "new" => \A j \in 1..(i - 1) : cmds[j].st # "new")
    /\ []((ppc = "ret" /\ pret.err = "nil") =>
            /\ pret.out = cmds[Len(cmds)].out
            /\ \A i \in 2..Len(cmds) : cmds[i].stdin = i - 1
            /\ (Len(cmds) = 2 /\ cmds[2].out = PipeInput(cmds)) => pret.out = cmds[1].out)
    /\ [](ppc = "loop" => ENABLED PipeLoop)
    /\ [](ppc = "final" => ENABLED PipeFinal)
    /\ [][pi' = pi + 1 => cmds'[pi].st \in {"running", "failed"}]_vars

PipeCopiedThrough ==
    /\ ppc = "ret"
    /\ pret.err = "nil"
    /\ Len(cmds) = 2
    /\ cmds[1].st = "running"
    /\ cmds[1].out # NoData
    /\ cmds[2].stdin = 1
    /\ cmds[2].out = PipeInput(cmds)
    /\ pret.out = cmds[1].out

\* C11: the request that generateConfig(namespace, clusterName) wrote to
\* req-I-csr.json, for I one of node, sgadmin, kibana, cerebro, has CN I and
\* as hosts exactly localhost, I-clusterName, I-clusterName.namespace and
\* I-clusterName.namespace.svc.cluster.local.
LeafHostsExact ==
    \A I \in {"node", "sgadmin", "kibana", "cerebro"} :
        LET f == "req-" \o I \o "-csr.json"
            d == cfgData[f]
        IN  f \in gen.written =>
                /\ d.CN = I
                /\ Len(d.hosts) = 4
                /\ {d.hosts[i] : i \in 1..Len(d.hosts)} =
                      {"localhost",
                       I \o "-" \o gen.clusterName,
                       I \o "-" \o gen.clusterName \o "." \o gen.namespace,
                       I \o "-" \o gen.clusterName \o "." \o gen.namespace
                         \o ".svc.cluster.local"}

KibanaRequestWritten ==
    /\ gen.written = ConfigFiles
    /\ gen.namespace = "prod"
    /\ gen.clusterName = "es2"
    /\ cfgData["req-kibana-csr.json"].CN = "kibana"
    /\ cfgData["req-kibana-csr.json"].hosts[4] = "kibana-es2.prod.svc.cluster.local"
    /\ cfgData["req-node-csr.json"].hosts[2] = "node-es2"

\* C12: a cleanUp that met no filesystem error returns nil and leaves the
\* directory with no entry, whether it found entries or none; a second
\* cleanUp right after it leaves the directory as the first left it and
\* returns the same nil.
CleanUpEmptiesAndRepeats ==
    /\ []((cln.n >= 1 /\ cln.clean) =>
            /\ ~cln.err
            /\ Len(Listing(cfgData, ConfigOrder, AbsentDoc)) = 0
            /\ \A f \in ConfigFiles : configDir[f] = "absent")
    /\ [][(cln.n >= 1 /\ cln.clean /\ cln'.n = 2 /\ cln'.clean) =>
            /\ cfgData' = cfgData
            /\ configDir' = configDir
            /\ cln'.entries = 0
            /\ cln'.err = cln.err]_vars

CleanedTwice ==
    /\ cln.n = 2
    /\ cln.first = 6
    /\ cln.entries = 0
    /\ cln.clean
    /\ ~cln.err
    /\ cfgData = CleanConfigDir

\* C13: a generateConfig call in which the creation or the writing of a file
\* failed returns an error (and only such a call does); every file that
\* comes after the failing one in the write order is as it was before the
\* call; every file before it holds the document written by this call; the
\* failing file is as it was or cut short.
ConfigStopsAtFirstFailure ==
    /\ [](gen.err <=> gen.failAt # 0)
    /\ [][(gen'.n = gen.n + 1 /\ gen'.failAt # 0) =>
            /\ gen'.err
            /\ \A f \in gen'.later : cfgData'[f] = cfgData[f] /\ configDir'[f] = configDir[f]
            /\ \A f \in gen'.written :
                  cfgData'[f] = Doc(f, gen'.namespace, gen'.clusterName)
            /\ \A f \in ConfigFiles \ (gen'.later \cup gen'.written) :
                  cfgData'[f] \in {cfgData[f], PartialDoc}
            /\ Cardinality(gen'.written) = gen'.failAt - 1
            /\ Cardinality(gen'.later) = Cardinality(ConfigFiles) - gen'.failAt]_vars

ConfigHalfWritten ==
    /\ gen.err
    /\ gen.failAt = 4
    /\ gen.later = {"req-kibana-csr.json", "req-node-csr.json"}
    /\ cfgData["req-kibana-csr.json"] = AbsentDoc
    /\ cfgData["req-node-csr.json"] = AbsentDoc
    /\ cfgData["req-sgadmin-csr.json"] = PartialDoc
    /\ cfgData["req-cerebro-csr.json"] = Doc("req-cerebro-csr.json", "default", "es1")
    /\ cfgData["ca-csr.json"] # AbsentDoc

\* C17: after a generateConfig(namespace, clusterName) that returned nil on
\* a clean configDir, configDir holds exactly the six descriptor files, each
\* with the document that namespace and clusterName determine, and it is
\* the directory that every other order of writing the four leaf requests
\* would have produced.
ConfigDeterministic ==
    (gen.written = ConfigFiles /\ gen.clean) =>
        /\ ~gen.err
        /\ {f \in DOMAIN cfgData : cfgData[f] # AbsentDoc} =
              {"ca-config.json", "ca-csr.json", "req-node-csr.json",
               "req-sgadmin-csr.json", "req-kibana-csr.json", "req-cerebro-csr.json"}
        /\ \A f \in DOMAIN cfgData : cfgData[f] = Doc(f, gen.namespace, gen.clusterName)
        /\ \A p \in LeafPerms :
              cfgData = ConfigAfter(CleanConfigDir, gen.namespace, gen.clusterName,
                                    p, 0, "create")

ConfigWrittenOnClean ==
    /\ gen.written = ConfigFiles
    /\ gen.clean
    /\ gen.namespace = "default"
    /\ gen.clusterName = "es2"
    /\ cfgData["ca-csr.json"].hosts[3] = "elasticsearch-es2.default"
    /\ "CN" \notin DOMAIN cfgData["ca-csr.json"]
    /\ cfgData["req-sgadmin-csr.json"].CN = "sgadmin"
    /\ cfgData["ca-config.json"].signing.default.expiry = "8760h"

\* C14: while the issuance for a leaf is under way, whether it ends well or
\* not, every file of certsDir other than that leaf's certificate and key
\* stays as it is; a leaf's files are absent or what its own issuance writes;
\* and when the four issuances were done, in whatever order, with every tool
\* doing its work, certsDir is what the order node, kibana, cerebro, sgadmin
\* leaves.
LeafIssuancesIndependent ==
    /\ [][(pc \in Identities) =>
            (\A f \in CertFiles \ {PemName[pc], KeyName[pc]} :
                certsDir'[f] = certsDir[f])]_vars
    /\ [](\A i \in Identities : \A f \in {PemName[i], KeyName[i]} :
            certsDir[f] \in {Absent, IssuedInOrder(CertsDirWithCA, LeafOrder)[f]})
    /\ []((\A i \in Identities : res[i] = "ok") /\ faults = 0 =>
            certsDir = IssuedInOrder(CertsDirWithCA, LeafOrder))

LeafFailedAfterOthers ==
    /\ pc = "done"
    /\ ret = "kibana"
    /\ res["kibana"] = "err"
    /\ res["sgadmin"] = "ok"
    /\ res["node"] = "none"
    /\ certsDir["sgadmin.pem"] = <<1, 1, "sgadmin.pem">>
    /\ certsDir["kibana.pem"] = Absent
    /\ certsDir["ca-key.pem"] = <<1, 1, "ca-key.pem">>

\* C15: nothing guards the working directories: a caller can enter
\* GenerateCerts whatever another caller is doing, and a caller inside can
\* always take its next statement, wherever the other one is.  (The state
\* this leads to, a caller returning success over a certsDir whose leaf
\* certificate or keystore does not belong to the CA in ca.pem, is
\* ConcMixedLineage.)
ConcNoLocking ==
    \A p \in Callers :
        /\ cpc[p] = "idle" => ENABLED ConcCall(p)
        /\ cpc[p] \in Stages => ENABLED ConcStep(p)
        /\ cpc[p] \in {"cleanCerts", "cleanConfig"} => ENABLED ConcClean(p)

ConcMixedLineage ==
    \E p \in Callers :
        /\ cret[p] = "nil"
        /\ certsDir["ca.pem"] # Absent
        /\ \E q \in Callers \ {p} : cpc[q] \in Stages
        /\ \E f \in {"node.pem", "node-keystore.jks"} :
              /\ certsDir[f] # Absent
              /\ certsDir[f][2] # certsDir["ca.pem"][2]

\* C19: the three store operations meet in one entry per namespace and
\* cluster name: CertsSecretExists(ns, c) answers true exactly when the last
\* create or delete that succeeded on (ns, c) was a create; a step that is
\* no successful create or delete on (ns, c) leaves that answer as it was;
\* and the answer is false whenever the lookup fails.
StoreEntryShared ==
    /\ [](\A ns \in Namespaces, c \in ClusterNames :
            /\ CertsSecretExists(store, ns, c, FALSE) = (lastOp[<<ns, c>>] = "create")
            /\ ~CertsSecretExists(store, ns, c, TRUE)
            /\ \A other \in Namespaces :
                  StoreGet(store, other, "secretName-" \o c) # {} <=>
                      lastOp[<<other, c>>] = "create")
    /\ [](ans.called =>
            ans.val = (~ans.failed /\ lastOp[<<ans.namespace, ans.clusterName>>] = "create"))
    /\ [][\A ns \in Namespaces, c \in ClusterNames :
            (lastOp'[<<ns, c>>] = lastOp[<<ns, c>>]) =>
                (CertsSecretExists(store', ns, c, FALSE) = CertsSecretExists(store, ns, c, FALSE))]_vars

SecretThereAfterCreate ==
    /\ ans.called
    /\ ans.namespace = "prod"
    /\ ans.clusterName = "es1"
    /\ ans.val
    /\ lastOp[<<"prod", "es1">>] = "create"
    /\ lastOp[<<"default", "es1">>] = "delete"
    /\ lastOp[<<"prod", "es2">>] = "none"
    /\ ~CertsSecretExists(store, "default", "es1", FALSE)
    /\ ~CertsSecretExists(store, "prod", "es2", FALSE)

====
